---- MODULE Spec2Model ----
(***************************************************************************)
(* Model of the streaming trade classifier of solution.py: the pre-filter, *)
(* the three batch classes with their admission rules, the linked chains   *)
(* of live batches driven by categorize_trade, and the end-of-stream sweep *)
(* add_remaining_batches.                                                  *)
(*                                                                         *)
(* Batch objects live in `heap`: the object created n-th has reference n,  *)
(* and None is 0.  A batch that is unlinked from its chain stays in the    *)
(* heap (nothing refers to it any more unless a result list does).         *)
(***************************************************************************)
EXTENDS Integers, Sequences, FiniteSets, TLC

\* Number of records of the input stream.
MaxTrades == 3

\* Number of records of the longer streams on one symbol.
MaxChainTrades == 4

MaxZeroLotTrades == 5

----------------------------------------------------------------------------
\* Record layout and thresholds

OPEN_DATE_INDEX == 0
CLOSE_DATE_INDEX == 1
DURATION_INDEX == 2
LOT_SIZE_INDEX == 3
SIDE_INDEX == 4
TRADE_ID_INDEX == 5
SYMBOL_INDEX == 6
ACCOUNT_ID_INDEX == 7
USER_ID_INDEX == 8

MINIMUM_TRADE_DURATION == 1000
MATCHING_TIME_WINDOW == 60 * 5 * 1000
MINIMUM_LOT_SIZE == 10^6

\* The two users given on the command line.
user_id1 == 1
user_id2 == 2

\* The symbol table has two entries: the chains and result lists are keyed
\* by range(len(Symbols)).
Symbols == {0, 1}

\* Owner of each account, as the transformer looks it up.
user_id_per_account_id == (10 :> 1) @@ (11 :> 2) @@ (12 :> 3)

\* A trade is the 9-tuple of the record, indexed from 0 as in the source.
Trade(open_ts, close_ts, duration, lot_size, side, trade_id, symbol, account_id, user_id) ==
    [i \in 0..8 |->
        <<open_ts, close_ts, duration, lot_size, side, trade_id, symbol,
          account_id, user_id>>[i + 1]]

None == 0

\* Outcome of a submission that raised ZeroDivisionError instead of
\* returning a code.
ZeroDivisionError == 0 - 1

VARIABLES
    heap,                       \* the batch objects, by reference
    copy_trades_batch,          \* symbol -> head of the Copy chain
    reversal_trades_batch,      \* symbol -> head of the Reversal chain
    partial_copy_trades_batch,  \* symbol -> head of the PartialCopy chain
    copy_trades,                \* symbol -> result list (batch references)
    reversal_trades,
    partial_copy_trades,
    trade,                      \* the record read last (trade_id 0: none yet)
    pc                          \* "scan", "done" (sweep has run) or "raised"

vars == <<heap, copy_trades_batch, reversal_trades_batch,
          partial_copy_trades_batch, copy_trades, reversal_trades,
          partial_copy_trades, trade, pc>>

----------------------------------------------------------------------------
\* TradesBatch

\* TradesBatch.__init__: parent, link, empty similar list.  `cls` is the
\* class of the object (the constructor that made it).
TradesBatch(cls, new_trade, next_batch) ==
    [cls |-> cls, parent_trade |-> new_trade, next_batch |-> next_batch,
     similar_trades |-> <<>>]

\* Fault variant of validate: the open-time test is missing.
validate_no_expiry(new_trade_open_ts, new_trade_close_ts, new_trade_account_id, parent_trade_open_ts, parent_trade_close_ts, parent_account_id) ==
    IF new_trade_account_id = parent_account_id THEN 1
    ELSE IF (new_trade_close_ts - parent_trade_close_ts) > MATCHING_TIME_WINDOW THEN 2
    ELSE 3

\* Fault variant of validate: the account test is missing.
validate_no_account(new_trade_open_ts, new_trade_close_ts, new_trade_account_id, parent_trade_open_ts, parent_trade_close_ts, parent_account_id) ==
    IF (new_trade_open_ts - parent_trade_open_ts) > MATCHING_TIME_WINDOW THEN 0
    ELSE IF (new_trade_close_ts - parent_trade_close_ts) > MATCHING_TIME_WINDOW THEN 2
    ELSE 3

\* Fault variant of validate: the account test comes first.
validate_account_first(new_trade_open_ts, new_trade_close_ts, new_trade_account_id, parent_trade_open_ts, parent_trade_close_ts, parent_account_id) ==
    IF new_trade_account_id = parent_account_id THEN 1
    ELSE IF (new_trade_open_ts - parent_trade_open_ts) > MATCHING_TIME_WINDOW THEN 0
    ELSE IF (new_trade_close_ts - parent_trade_close_ts) > MATCHING_TIME_WINDOW THEN 2
    ELSE 3

\* TradesBatch._validate: 0 expired, 1 same account, 2 close time not
\* matching, 3 passed.  Python integers are unbounded: the differences may
\* be negative.
validate(new_trade_open_ts, new_trade_close_ts, new_trade_account_id, parent_trade_open_ts, parent_trade_close_ts, parent_account_id) ==
    IF (new_trade_open_ts - parent_trade_open_ts) > MATCHING_TIME_WINDOW THEN 0
    ELSE IF new_trade_account_id = parent_account_id THEN 1
    ELSE IF (new_trade_close_ts - parent_trade_close_ts) > MATCHING_TIME_WINDOW THEN 2
    ELSE 3

\* The result of submit_trade: the returned code and the batch as the call
\* leaves it.
Submitted(ret, batch) == [ret |-> ret, batch |-> batch]

Accepted(batch, new_trade) ==
    Submitted(4, [batch EXCEPT !.similar_trades = Append(@, new_trade)])

\* Fault variant of CopySubmit: case 1 returns SAME_ACCOUNT when the sides
\* differ.
CopySubmit_same_account(batch, new_trade, new_trade_open_ts, new_trade_close_ts, new_trade_account_id, value_to_validate) ==
    LET parent_trade == batch.parent_trade
        ret == validate(new_trade_open_ts, new_trade_close_ts, new_trade_account_id,
                        parent_trade[OPEN_DATE_INDEX], parent_trade[CLOSE_DATE_INDEX],
                        parent_trade[ACCOUNT_ID_INDEX])
        same_side == (parent_trade[SIDE_INDEX] = value_to_validate)
    IN  IF ret = 1 THEN Submitted(IF same_side THEN 3 ELSE 1, batch)
        ELSE IF ret # 3 THEN Submitted(ret, batch)
        ELSE IF ~same_side THEN Submitted(3, batch)
        ELSE Accepted(batch, new_trade)

\* Fault variant of CopySubmit: the final side test is missing.
CopySubmit_any_side(batch, new_trade, new_trade_open_ts, new_trade_close_ts, new_trade_account_id, value_to_validate) ==
    LET parent_trade == batch.parent_trade
        ret == validate(new_trade_open_ts, new_trade_close_ts, new_trade_account_id,
                        parent_trade[OPEN_DATE_INDEX], parent_trade[CLOSE_DATE_INDEX],
                        parent_trade[ACCOUNT_ID_INDEX])
    IN  IF ret = 1 THEN Submitted(3, batch)
        ELSE IF ret # 3 THEN Submitted(ret, batch)
        ELSE Accepted(batch, new_trade)

\* CopyTradesBatch.submit_trade.  In case 1 the match statement returns only
\* when the sides are equal; otherwise control leaves the match and reaches
\* the test `if not same_side`.
CopySubmit(batch, new_trade, new_trade_open_ts, new_trade_close_ts, new_trade_account_id, value_to_validate) ==
    LET parent_trade == batch.parent_trade
        parent_side == parent_trade[SIDE_INDEX]
        ret == validate(new_trade_open_ts, new_trade_close_ts, new_trade_account_id,
                        parent_trade[OPEN_DATE_INDEX], parent_trade[CLOSE_DATE_INDEX],
                        parent_trade[ACCOUNT_ID_INDEX])
        same_side == (parent_side = value_to_validate)
    IN  IF ret = 1 /\ same_side THEN Submitted(3, batch)
        ELSE IF ret # 1 /\ ret # 3 THEN Submitted(ret, batch)
        ELSE IF ~same_side THEN Submitted(3, batch)
        ELSE Accepted(batch, new_trade)

\* ReversalTradesBatch.submit_trade
ReversalSubmit(batch, new_trade, new_trade_open_ts, new_trade_close_ts, new_trade_account_id, value_to_validate) ==
    LET parent_trade == batch.parent_trade
        ret == validate(new_trade_open_ts, new_trade_close_ts, new_trade_account_id,
                        parent_trade[OPEN_DATE_INDEX], parent_trade[CLOSE_DATE_INDEX],
                        parent_trade[ACCOUNT_ID_INDEX])
    IN  IF ret < 3 THEN Submitted(ret, batch)
        ELSE IF parent_trade[SIDE_INDEX] = value_to_validate THEN Submitted(3, batch)
        ELSE Accepted(batch, new_trade)

\* Fault variant of relative_diff_too_large: the tolerance is 20%.
relative_diff_too_large_20(value_to_validate, parent_lot_size) ==
    LET d == value_to_validate - parent_lot_size
        abs_d == IF d < 0 THEN 0 - d ELSE d
    IN  10 * abs_d >= 2 * parent_lot_size

\* Fault variant of relative_diff_too_large: abs() is missing.
relative_diff_too_large_signed(value_to_validate, parent_lot_size) ==
    10 * (value_to_validate - parent_lot_size) >= 3 * parent_lot_size

\* abs(value_to_validate / parent_lot_size - 1) > 0.3 in IEEE doubles, for a
\* non-zero parent_lot_size.  The quotient is correctly rounded, 1.3 and 0.7
\* round to doubles whose distance from 1 is 0.30000000000000004, and the
\* literal 0.3 is the double 0.29999999999999998: a difference of exactly 30%
\* compares greater.  For lot sizes below 10^15 every ratio strictly inside
\* 30% is at least 10^-16 away from the boundary and compares not greater,
\* so the test is true exactly when 10 * |v - p| >= 3 * p.
relative_diff_too_large(value_to_validate, parent_lot_size) ==
    LET d == value_to_validate - parent_lot_size
        abs_d == IF d < 0 THEN 0 - d ELSE d
    IN  10 * abs_d >= 3 * parent_lot_size

\* PartialCopyTradesBatch.submit_trade.  The division raises when the
\* parent's lot size is 0.
PartialCopySubmit(batch, new_trade, new_trade_open_ts, new_trade_close_ts, new_trade_account_id, value_to_validate) ==
    LET parent_trade == batch.parent_trade
        ret == validate(new_trade_open_ts, new_trade_close_ts, new_trade_account_id,
                        parent_trade[OPEN_DATE_INDEX], parent_trade[CLOSE_DATE_INDEX],
                        parent_trade[ACCOUNT_ID_INDEX])
    IN  IF ret < 3 THEN Submitted(ret, batch)
        ELSE IF parent_trade[LOT_SIZE_INDEX] = 0 THEN Submitted(ZeroDivisionError, batch)
        ELSE IF relative_diff_too_large(value_to_validate, parent_trade[LOT_SIZE_INDEX])
             THEN Submitted(3, batch)
        ELSE Accepted(batch, new_trade)

\* batch.submit_trade(...): dispatch on the class of the object.
submit_trade(batch, new_trade, new_trade_open_ts, new_trade_close_ts, new_trade_account_id, value_to_validate) ==
    CASE batch.cls = "Copy" ->
            CopySubmit(batch, new_trade, new_trade_open_ts, new_trade_close_ts,
                       new_trade_account_id, value_to_validate)
      [] batch.cls = "Reversal" ->
            ReversalSubmit(batch, new_trade, new_trade_open_ts, new_trade_close_ts,
                           new_trade_account_id, value_to_validate)
      [] batch.cls = "PartialCopy" ->
            PartialCopySubmit(batch, new_trade, new_trade_open_ts, new_trade_close_ts,
                              new_trade_account_id, value_to_validate)

----------------------------------------------------------------------------
\* categorize_trade

\* Fault variants of emit: the emptiness test is missing, or nothing is
\* appended.
emit_always(h, queue, batch) == Append(queue, batch)

emit_never(h, queue, batch) == queue

\* Fault variant of emit: the batch is put in front of the list.
emit_front(h, queue, batch) ==
    IF h[batch].similar_trades # <<>> THEN <<batch>> \o queue ELSE queue

\* `if batch.similar_trades: queue.append(batch)`
emit(h, queue, batch) ==
    IF h[batch].similar_trades # <<>> THEN Append(queue, batch) ELSE queue

\* Fault variant of unlink: the predecessor's link is left as it was.
unlink_head_only(h, first_batch, prev_batch, batch, successor) ==
    [heap |-> h,
     first_batch |-> IF batch = first_batch THEN successor ELSE first_batch]

\* `if batch == first_batch: first_batch = successor
\*  else: prev_batch.next_batch = successor`
\* takes `batch` out of the chain, putting `successor` in its place.
unlink(h, first_batch, prev_batch, batch, successor) ==
    IF batch = first_batch
    THEN [heap |-> h, first_batch |-> successor]
    ELSE [heap |-> [h EXCEPT ![prev_batch].next_batch = successor],
          first_batch |-> first_batch]

\* What a call of categorize_trade leaves behind: the heap, the result list
\* it was given, the returned head, and whether it raised instead of
\* returning.
Categorized(h, queue, first_batch, raised) ==
    [heap |-> h, queue |-> queue, first_batch |-> first_batch, raised |-> raised]

\* The loop of categorize_trade from the point where `batch` is about to be
\* tested, and the code after the loop.
RECURSIVE categorize_loop(_, _, _, _, _, _, _, _)
categorize_loop(h, new_trade, first_batch, prev_batch, batch, constructor, queue, index) ==
    IF batch = None
    THEN Categorized(Append(h, TradesBatch(constructor, new_trade, first_batch)),
                     queue, Len(h) + 1, FALSE)
    ELSE
      LET s == submit_trade(h[batch], new_trade, new_trade[OPEN_DATE_INDEX],
                            new_trade[CLOSE_DATE_INDEX], new_trade[ACCOUNT_ID_INDEX],
                            new_trade[index])
          next_batch == h[batch].next_batch
      IN  CASE s.ret = 0 ->
                 LET u == unlink(h, first_batch, prev_batch, batch, next_batch)
                 IN  categorize_loop(u.heap, new_trade, u.first_batch, prev_batch,
                                     next_batch, constructor, emit(h, queue, batch), index)
            [] s.ret = 1 ->
                 LET new_batch == Len(h) + 1
                     h2 == Append(h, TradesBatch(constructor, new_trade, next_batch))
                     u == unlink(h2, first_batch, prev_batch, batch, new_batch)
                 IN  Categorized(u.heap, emit(h, queue, batch), u.first_batch, FALSE)
            [] s.ret \in {2, 3} ->
                 categorize_loop(h, new_trade, first_batch, batch, next_batch,
                                 constructor, queue, index)
            [] s.ret = 4 ->
                 Categorized([h EXCEPT ![batch] = s.batch], queue, first_batch, FALSE)
            [] s.ret = ZeroDivisionError ->
                 Categorized(h, queue, first_batch, TRUE)

categorize_trade(h, new_trade, batch, constructor, queue, index) ==
    categorize_loop(h, new_trade, batch, None, batch, constructor, queue, index)

----------------------------------------------------------------------------
\* add_remaining_batches

\* The inner loop for one symbol: the result list after the walk from `batch`.
RECURSIVE remaining(_, _, _)
remaining(h, batch, queue) ==
    IF batch = None THEN queue
    ELSE remaining(h, h[batch].next_batch, emit(h, queue, batch))

add_remaining_batches(h, batch_per_symbol, queues_per_symbol) ==
    [symbol \in Symbols |->
        remaining(h, batch_per_symbol[symbol], queues_per_symbol[symbol])]

----------------------------------------------------------------------------
\* The main loop

\* Fault variant of passes_filter: the duration test is strict.
passes_filter_strict_duration(t) ==
    /\ t[USER_ID_INDEX] \in {user_id1, user_id2}
    /\ ~(t[DURATION_INDEX] < MINIMUM_TRADE_DURATION
         /\ t[LOT_SIZE_INDEX] < MINIMUM_LOT_SIZE)

\* The first filter: neither `continue` is taken.
passes_filter(t) ==
    /\ t[USER_ID_INDEX] \in {user_id1, user_id2}
    /\ ~(t[DURATION_INDEX] <= MINIMUM_TRADE_DURATION
         /\ t[LOT_SIZE_INDEX] < MINIMUM_LOT_SIZE)

Init ==
    /\ heap = <<>>
    /\ copy_trades_batch = [x \in Symbols |-> None]
    /\ reversal_trades_batch = [x \in Symbols |-> None]
    /\ partial_copy_trades_batch = [x \in Symbols |-> None]
    /\ copy_trades = [x \in Symbols |-> <<>>]
    /\ reversal_trades = [x \in Symbols |-> <<>>]
    /\ partial_copy_trades = [x \in Symbols |-> <<>>]
    /\ trade = Trade(0, 0, 0, 0, 0, 0, 0, 0, 0)
    /\ pc = "scan"

\* Fault variant of symbol_of: the side index is used for the symbol index.
symbol_of_side(t) == t[SIDE_INDEX]

\* `symbol = trade[SYMBOL_INDEX]`: the key of the chains and result lists
\* that the record is classified into.
symbol_of(t) == t[SYMBOL_INDEX]

\* One iteration of `for trade in read_trades()` with record t.
ReadTrade(t) ==
    /\ pc = "scan"
    /\ trade' = t
    /\ IF ~passes_filter(t)
       THEN UNCHANGED <<heap, copy_trades_batch, reversal_trades_batch,
                        partial_copy_trades_batch, copy_trades, reversal_trades,
                        partial_copy_trades, pc>>
       ELSE
         LET symbol == symbol_of(t)
             c == categorize_trade(heap, t, copy_trades_batch[symbol], "Copy",
                                   copy_trades[symbol], 4)
             r == categorize_trade(c.heap, t, reversal_trades_batch[symbol], "Reversal",
                                   reversal_trades[symbol], 4)
             p == categorize_trade(r.heap, t, partial_copy_trades_batch[symbol],
                                   "PartialCopy", partial_copy_trades[symbol], 3)
         IN  /\ heap' = p.heap
             /\ copy_trades_batch' = [copy_trades_batch EXCEPT ![symbol] = c.first_batch]
             /\ copy_trades' = [copy_trades EXCEPT ![symbol] = c.queue]
             /\ reversal_trades_batch' =
                    [reversal_trades_batch EXCEPT ![symbol] = r.first_batch]
             /\ reversal_trades' = [reversal_trades EXCEPT ![symbol] = r.queue]
             /\ partial_copy_trades' = [partial_copy_trades EXCEPT ![symbol] = p.queue]
             \* an exception leaves the assignment of the returned head undone
             /\ partial_copy_trades_batch' =
                    IF p.raised THEN partial_copy_trades_batch
                    ELSE [partial_copy_trades_batch EXCEPT ![symbol] = p.first_batch]
             /\ pc' = IF p.raised THEN "raised" ELSE "scan"

\* The stream is exhausted: the three sweeps.
EndOfStream ==
    /\ pc = "scan"
    /\ copy_trades' = add_remaining_batches(heap, copy_trades_batch, copy_trades)
    /\ reversal_trades' =
           add_remaining_batches(heap, reversal_trades_batch, reversal_trades)
    /\ partial_copy_trades' =
           add_remaining_batches(heap, partial_copy_trades_batch, partial_copy_trades)
    /\ pc' = "done"
    /\ UNCHANGED <<heap, copy_trades_batch, reversal_trades_batch,
                   partial_copy_trades_batch, trade>>

----------------------------------------------------------------------------
\* Input streams

\* The next record of a stream sorted by open_ts: it opens `delta` after the
\* record read last, lasts `duration`, and carries the next trade id and the
\* user that owns the account.
NextRecord(delta, duration, lot_size, side, symbol, account_id) ==
    Trade(trade[OPEN_DATE_INDEX] + delta,
          trade[OPEN_DATE_INDEX] + delta + duration,
          duration, lot_size, side, trade[TRADE_ID_INDEX] + 1, symbol, account_id,
          user_id_per_account_id[account_id])

MoreRecords == trade[TRADE_ID_INDEX] < MaxTrades

\* Streams over two symbols, two accounts and both sides, with open times
\* 1 ms or a whole window apart.  Every trade has a lot size of 0.1 lot
\* (10^7) and lasts 1 s, except that account 10 may also hold a trade on
\* symbol 0 that stays open for a window plus 1 s.
TimedRecords ==
    { NextRecord(delta, 1000, 10 * MINIMUM_LOT_SIZE, side, symbol, account_id) :
        delta \in {1, MATCHING_TIME_WINDOW}, side \in {0, 1},
        symbol \in Symbols, account_id \in {10, 11} }
    \cup
    { NextRecord(1, MATCHING_TIME_WINDOW + 1000, 10 * MINIMUM_LOT_SIZE, side, 0, 10) :
        side \in {0, 1} }

Next ==
    \/ MoreRecords /\ \E t \in TimedRecords : ReadTrade(t)
    \/ EndOfStream

Spec == Init /\ [][Next]_vars

\* Streams on one symbol with open times 1 ms apart, over lot sizes 0, 0.1 lot
\* and 0.13 lot and durations of 1 s and of a window plus 1 s.
SizedRecords ==
    { NextRecord(1, duration, lot_size, side, 0, account_id) :
        duration \in {1000, MATCHING_TIME_WINDOW + 1000},
        lot_size \in {0, 10 * MINIMUM_LOT_SIZE, 13 * MINIMUM_LOT_SIZE}, side \in {0, 1},
        account_id \in {10, 11} }

NextSized ==
    \/ MoreRecords /\ \E t \in SizedRecords : ReadTrade(t)
    \/ EndOfStream

SpecSized == Init /\ [][NextSized]_vars

\* Streams on one symbol and one side with open times 1 ms apart, over three
\* accounts (account 12 belongs to a third user), durations of 1000 and
\* 1001 ms and lot sizes just below and at MINIMUM_LOT_SIZE.
FilteredRecords ==
    { NextRecord(1, duration, lot_size, 0, 0, account_id) :
        duration \in {MINIMUM_TRADE_DURATION, MINIMUM_TRADE_DURATION + 1},
        lot_size \in {MINIMUM_LOT_SIZE - 1, MINIMUM_LOT_SIZE},
        account_id \in {10, 11, 12} }

NextFiltered ==
    \/ MoreRecords /\ \E t \in FilteredRecords : ReadTrade(t)
    \/ EndOfStream

SpecFiltered == Init /\ [][NextFiltered]_vars

\* The first trade of the end-to-end scenarios: 5 lots, Long, account 10 of
\* user 1, open for 1 s with its duration field set to 2 s.
ScenarioT1 == Trade(1000, 2000, 2000, 5 * 10^8, 1, 1, 0, 10, 1)

\* The second trade of the scenarios, Long and of the given lot size, on
\* account 11 of user 2, 1 s after the first.
ScenarioT2(lot_size) == Trade(2000, 3000, 1000, lot_size, 1, 2, 0, 11, 2)

\* Streams that start with ScenarioT1 and go on with trades of 1 s that open
\* 1 s or a window and 1 ms after the record before, of 5, 6 or 7 lots, on
\* either side and account.
ScenarioRecords ==
    IF trade[TRADE_ID_INDEX] = 0
    THEN { ScenarioT1 }
    ELSE { Trade(trade[OPEN_DATE_INDEX] + delta, trade[OPEN_DATE_INDEX] + delta + 1000,
                 1000, lots * 10^8, side, trade[TRADE_ID_INDEX] + 1, 0, account_id,
                 user_id_per_account_id[account_id]) :
             delta \in {1000, MATCHING_TIME_WINDOW + 1}, lots \in {5, 6, 7},
             side \in {0, 1}, account_id \in {10, 11} }

NextScenario ==
    \/ MoreRecords /\ \E t \in ScenarioRecords : ReadTrade(t)
    \/ EndOfStream

SpecScenario == Init /\ [][NextScenario]_vars

\* Longer streams on symbol 0 alone: the records of TimedRecords for that
\* symbol.
ChainRecords == { t \in TimedRecords : t[SYMBOL_INDEX] = 0 }

MoreChainRecords == trade[TRADE_ID_INDEX] < MaxChainTrades

NextChain ==
    \/ MoreChainRecords /\ \E t \in ChainRecords : ReadTrade(t)
    \/ EndOfStream

SpecChain == Init /\ [][NextChain]_vars

----------------------------------------------------------------------------
\* Views of the state used by the properties

Categories == {"Copy", "Reversal", "PartialCopy"}

chain_head(cls, symbol) ==
    CASE cls = "Copy" -> copy_trades_batch[symbol]
      [] cls = "Reversal" -> reversal_trades_batch[symbol]
      [] cls = "PartialCopy" -> partial_copy_trades_batch[symbol]

result_list(cls, symbol) ==
    CASE cls = "Copy" -> copy_trades[symbol]
      [] cls = "Reversal" -> reversal_trades[symbol]
      [] cls = "PartialCopy" -> partial_copy_trades[symbol]

\* The batches linked from `batch` on, head first.
RECURSIVE chain(_, _)
chain(h, batch) ==
    IF batch = None THEN <<>> ELSE <<batch>> \o chain(h, h[batch].next_batch)

Range(f) == { f[i] : i \in DOMAIN f }

Live == UNION { Range(chain(heap, chain_head(cls, symbol))) :
                  cls \in Categories, symbol \in Symbols }

Emitted == UNION { Range(result_list(cls, symbol)) :
                     cls \in Categories, symbol \in Symbols }

Batches == 1..Len(heap)

parent(b) == heap[b].parent_trade

similar(b) == Range(heap[b].similar_trades)

\* A trade has been read and classified, and the scan goes on.
Classified ==
    pc = "scan" /\ trade[TRADE_ID_INDEX] # 0 /\ passes_filter(trade)

----------------------------------------------------------------------------
\* Properties

\* C1: in every category, no batch that is live in a chain or present in a
\* result list has a similar trade of its parent's account.
SimilarFromOtherAccount ==
    \A b \in Live \cup Emitted : \A t \in similar(b) :
        parent(b)[ACCOUNT_ID_INDEX] # t[ACCOUNT_ID_INDEX]

\* A batch with similar trades was closed by a trade of its parent's account
\* that arrived inside the open window.
ClosedBySameAccount ==
    /\ Classified
    /\ \E b \in Emitted :
        /\ similar(b) # {}
        /\ trade \notin similar(b)
        /\ parent(b)[ACCOUNT_ID_INDEX] = trade[ACCOUNT_ID_INDEX]
        /\ trade[OPEN_DATE_INDEX] - parent(b)[OPEN_DATE_INDEX] <= MATCHING_TIME_WINDOW

\* C2: every similar trade of an emitted batch closes no earlier than the
\* parent and at most a window after it.
CloseWithinWindowBothSides ==
    \A b \in Emitted : \A t \in similar(b) :
        /\ 0 <= t[CLOSE_DATE_INDEX] - parent(b)[CLOSE_DATE_INDEX]
        /\ t[CLOSE_DATE_INDEX] - parent(b)[CLOSE_DATE_INDEX] <= MATCHING_TIME_WINDOW

\* C3: every similar trade of an emitted batch opens no earlier than the
\* parent and at most a window (300000 ms) after it.
OpenWithinWindow ==
    \A b \in Emitted : \A t \in similar(b) :
        /\ 0 <= t[OPEN_DATE_INDEX] - parent(b)[OPEN_DATE_INDEX]
        /\ t[OPEN_DATE_INDEX] - parent(b)[OPEN_DATE_INDEX] <= MATCHING_TIME_WINDOW

\* An emitted batch holds a trade opened exactly a window after its parent,
\* and a trade opened 1 ms later than that has been classified.
SimilarAtWindowEdge ==
    /\ trade[TRADE_ID_INDEX] # 0
    /\ \E b \in Emitted :
        /\ \E t \in similar(b) :
              t[OPEN_DATE_INDEX] - parent(b)[OPEN_DATE_INDEX] = MATCHING_TIME_WINDOW
        /\ trade[OPEN_DATE_INDEX] - parent(b)[OPEN_DATE_INDEX] = MATCHING_TIME_WINDOW + 1
        /\ trade[SYMBOL_INDEX] = parent(b)[SYMBOL_INDEX]

\* C4: a similar trade of a Copy batch has the parent's side, a similar trade
\* of a Reversal batch has the other side.
SidesFollowCategory ==
    \A b \in Batches : \A t \in similar(b) :
        /\ heap[b].cls = "Copy" => t[SIDE_INDEX] = parent(b)[SIDE_INDEX]
        /\ heap[b].cls = "Reversal" => t[SIDE_INDEX] # parent(b)[SIDE_INDEX]

\* A Copy batch and a Reversal batch of the same parent both hold similar
\* trades.
CopyAndReversalFilled ==
    \E b, c \in Batches :
        /\ heap[b].cls = "Copy" /\ heap[c].cls = "Reversal"
        /\ parent(b) = parent(c)
        /\ similar(b) # {} /\ similar(c) # {}

\* C5: the lot size of a similar trade of a PartialCopy batch is within 30%
\* of the parent's, whatever the sides.
LotWithinTolerance ==
    \A b \in Batches : heap[b].cls = "PartialCopy" =>
        \A t \in similar(b) :
            LET d == t[LOT_SIZE_INDEX] - parent(b)[LOT_SIZE_INDEX]
            IN  /\ 10 * d <= 3 * parent(b)[LOT_SIZE_INDEX]
                /\ 10 * (0 - d) <= 3 * parent(b)[LOT_SIZE_INDEX]

\* A PartialCopy batch holds a trade of the other side and of another lot
\* size, and a trade 30% larger than the parent was turned away.
PartialCopyOtherSideOtherLot ==
    \E b \in Batches :
        /\ heap[b].cls = "PartialCopy"
        /\ \E t \in similar(b) :
              /\ t[SIDE_INDEX] # parent(b)[SIDE_INDEX]
              /\ t[LOT_SIZE_INDEX] # parent(b)[LOT_SIZE_INDEX]
        /\ heap[b].next_batch # None
        /\ LET c == heap[b].next_batch
           IN  /\ 10 * parent(b)[LOT_SIZE_INDEX] = 13 * parent(c)[LOT_SIZE_INDEX]
               /\ parent(b)[ACCOUNT_ID_INDEX] # parent(c)[ACCOUNT_ID_INDEX]
               /\ parent(b) \notin similar(c)

\* C6: no submission of a pre-filtered trade raises.
NoPerRecordError == pc # "raised"

\* C7: when a classified trade meets a Copy head inside the open window with
\* the head's account and the other side, the head is replaced in the chain
\* by a new batch parented by the trade.
CopyOtherSideSameAccountReplaces ==
    [][ (pc = "scan" /\ pc' = "scan" /\ trade' # trade /\ passes_filter(trade')) =>
          LET symbol == trade'[SYMBOL_INDEX]
              head == copy_trades_batch[symbol]
              new_head == copy_trades_batch'[symbol]
          IN  ( /\ head # None
                /\ trade'[OPEN_DATE_INDEX] - parent(head)[OPEN_DATE_INDEX]
                       <= MATCHING_TIME_WINDOW
                /\ trade'[ACCOUNT_ID_INDEX] = parent(head)[ACCOUNT_ID_INDEX]
                /\ trade'[SIDE_INDEX] # parent(head)[SIDE_INDEX] )
              => /\ new_head > Len(heap)
                 /\ heap'[new_head].parent_trade = trade'
                 /\ heap'[new_head].next_batch = heap[head].next_batch
      ]_vars

\* C8: no batch is twice in the result lists, every batch of a result list
\* is in the list of its own class and symbol, and none has an empty similar
\* list.
EmittedOnceAndFilled ==
    \A cls \in Categories, symbol \in Symbols :
        LET queue == result_list(cls, symbol)
        IN  /\ \A i, j \in DOMAIN queue : queue[i] = queue[j] => i = j
            /\ \A i \in DOMAIN queue :
                  /\ heap[queue[i]].similar_trades # <<>>
                  /\ heap[queue[i]].cls = cls
                  /\ parent(queue[i])[SYMBOL_INDEX] = symbol

\* After the sweep the result lists hold a batch that left its chain during
\* the scan and a batch that was still linked at the end.
EmittedByScanAndBySweep ==
    /\ pc = "done"
    /\ \E b \in Emitted : b \notin Live
    /\ \E b \in Emitted : b \in Live
    /\ \E b \in Live : b \notin Emitted

\* C9: once the sweep has run, every batch that ever accepted a trade is in
\* the result list of its symbol and class.
NoMatchLost ==
    pc = "done" =>
        \A b \in Batches : similar(b) # {} =>
            b \in Range(result_list(heap[b].cls, parent(b)[SYMBOL_INDEX]))

\* After the sweep: a filled batch that was evicted by expiry, one that was
\* replaced by a trade of its parent's account, or one still linked.
FilledBatchesOfEveryFate ==
    /\ pc = "done"
    /\ \E b \in Batches :
          /\ similar(b) # {} /\ b \notin Live
          /\ trade[OPEN_DATE_INDEX] - parent(b)[OPEN_DATE_INDEX] > MATCHING_TIME_WINDOW
    /\ \E b \in Batches : similar(b) # {} /\ b \in Live

\* C10 as stated: after a trade is classified no linked batch, in any chain,
\* has a parent opened more than a window before the trade.
NoLiveBatchPastWindow ==
    Classified =>
        \A b \in Live :
            parent(b)[OPEN_DATE_INDEX] >= trade[OPEN_DATE_INDEX] - MATCHING_TIME_WINDOW

\* C10 (amended): after a trade is classified the head of each of the three
\* chains of the trade's symbol has a parent opened at most a window before
\* the trade.
HeadsWithinWindow ==
    Classified =>
        \A cls \in Categories :
            LET head == chain_head(cls, trade[SYMBOL_INDEX])
            IN  /\ head # None
                /\ parent(head)[OPEN_DATE_INDEX]
                       >= trade[OPEN_DATE_INDEX] - MATCHING_TIME_WINDOW

\* Behind a head inside the window, in the chain of the trade's own symbol, a
\* batch past the window is still linked.
StaleBatchBehindHead ==
    /\ Classified
    /\ \E cls \in Categories :
          LET live == chain(heap, chain_head(cls, trade[SYMBOL_INDEX]))
          IN  /\ Len(live) >= 2
              /\ parent(live[1])[OPEN_DATE_INDEX]
                     >= trade[OPEN_DATE_INDEX] - MATCHING_TIME_WINDOW
              /\ \E i \in 2..Len(live) :
                    parent(live[i])[OPEN_DATE_INDEX]
                        < trade[OPEN_DATE_INDEX] - MATCHING_TIME_WINDOW

\* The parents' open times along the chain of a class and symbol, head first.
parent_opens(cls, symbol) ==
    LET live == chain(heap, chain_head(cls, symbol))
    IN  [i \in DOMAIN live |-> parent(live[i])[OPEN_DATE_INDEX]]

\* C11 as stated: every chain, read from head to tail, has non-decreasing
\* parent open times (the head holds the oldest parent).
ChainsOldestFirst ==
    \A cls \in Categories, symbol \in Symbols :
        LET opens == parent_opens(cls, symbol)
        IN  \A i, j \in DOMAIN opens : i < j => opens[i] <= opens[j]

\* C11 (amended): every Copy chain, read from head to tail, has non-increasing
\* parent open times (the head holds the newest parent).
CopyChainsNewestFirst ==
    \A symbol \in Symbols :
        LET opens == parent_opens("Copy", symbol)
        IN  \A i, j \in DOMAIN opens : i < j => opens[i] >= opens[j]

\* A Copy chain whose head is strictly newer than the batch behind it, next
\* to a Reversal chain of the same symbol whose head is strictly older than
\* the batch behind it.
CopyNewestFirstReversalNot ==
    \E symbol \in Symbols :
        LET c == parent_opens("Copy", symbol)
            r == parent_opens("Reversal", symbol)
        IN  /\ Len(c) >= 2 /\ c[1] > c[2]
            /\ Len(r) >= 2 /\ r[1] < r[2]

\* The step reads a record that passes the filter and classifies it without
\* an error.
Classifies ==
    pc = "scan" /\ pc' = "scan" /\ trade' # trade /\ passes_filter(trade')

\* Batch b is past the matching window of trade t.
past_window(b, t) ==
    t[OPEN_DATE_INDEX] - parent(b)[OPEN_DATE_INDEX] > MATCHING_TIME_WINDOW

\* C12 as stated: whenever the head of a chain is expired for the incoming
\* trade, every batch further down that chain is expired for it too.
HeadExpiredAllExpired ==
    [][ Classifies =>
          \A cls \in Categories :
              LET live == chain(heap, chain_head(cls, trade'[SYMBOL_INDEX]))
              IN  (live # <<>> /\ past_window(live[1], trade')) =>
                      \A i \in DOMAIN live : past_window(live[i], trade')
      ]_vars

\* C12 (amended): whenever the head of a Copy chain is expired for the
\* incoming trade, every batch further down that chain is expired for it too.
CopyHeadExpiredAllExpired ==
    [][ Classifies =>
          LET live == chain(heap, chain_head("Copy", trade'[SYMBOL_INDEX]))
          IN  (live # <<>> /\ past_window(live[1], trade')) =>
                  \A i \in DOMAIN live : past_window(live[i], trade')
      ]_vars

\* The trade read last found a Copy chain of two batches, both expired: it
\* evicted the head and the batch behind it and is the parent of the only
\* live Copy batch.
CopyChainEvictedWhole ==
    /\ Classified
    /\ \E b, c \in Batches :
          /\ heap[b].cls = "Copy" /\ heap[b].next_batch = c
          /\ b \notin Live /\ c \notin Live
          /\ past_window(b, trade) /\ past_window(c, trade)
          /\ ~past_window(c, parent(b))
    /\ LET live == chain(heap, copy_trades_batch[trade[SYMBOL_INDEX]])
       IN  Len(live) = 1 /\ parent(live[1]) = trade

\* C13: a step appends to each result list, behind what the list holds, the
\* filled batches that leave the chain in that step, in the order in which
\* the traversal meets them; the sweep appends the filled batches still
\* linked, in head-to-tail order.
ResultsInEvictionThenChainOrder ==
    [][ pc = "scan" /\ pc' \in {"scan", "done"} =>
          \A cls \in Categories, symbol \in Symbols :
              LET live == chain(heap, chain_head(cls, symbol))
                  linked_after == Range(chain(heap, chain_head(cls, symbol)))'
                  leaves(b) == /\ heap[b].similar_trades # <<>>
                               /\ (pc' = "done" \/ b \notin linked_after)
              IN  result_list(cls, symbol)' =
                      result_list(cls, symbol) \o SelectSeq(live, leaves)
      ]_vars

\* After the sweep a result list holds a batch that left the chain during
\* the scan, followed by a batch that was still linked at the end.
EvictedBeforeSwept ==
    /\ pc = "done"
    /\ \E cls \in Categories, symbol \in Symbols :
          LET queue == result_list(cls, symbol)
          IN  /\ Len(queue) >= 2
              /\ queue[1] \notin Live
              /\ queue[Len(queue)] \in Live

\* The trades held by batch b: its parent and its similar trades.
trades_of(b) == {parent(b)} \cup similar(b)

\* C14: every trade held by a batch belongs to one of the two users and is
\* not both brief (at most 1000 ms) and tiny (below 10^6); a brief trade that
\* is not tiny and a tiny trade that is not brief, of one of the two users,
\* are held by a batch once they are read.
OnlyFilteredTradesAndNoOthers ==
    /\ \A b \in Batches : \A t \in trades_of(b) :
          /\ t[USER_ID_INDEX] \in {user_id1, user_id2}
          /\ ~(t[DURATION_INDEX] <= 1000 /\ t[LOT_SIZE_INDEX] < 10^6)
    /\ ( /\ trade[TRADE_ID_INDEX] # 0
         /\ trade[USER_ID_INDEX] \in {user_id1, user_id2}
         /\ \/ trade[DURATION_INDEX] <= 1000 /\ trade[LOT_SIZE_INDEX] >= 10^6
            \/ trade[DURATION_INDEX] > 1000 /\ trade[LOT_SIZE_INDEX] < 10^6 )
       => \E b \in Batches : trade \in trades_of(b)

\* A batch with a brief parent that is not tiny holds a tiny trade that is
\* not brief, and the record read last, brief and tiny, is held by no batch.
BriefAndTinyBothAdmitted ==
    /\ \E b \in Batches :
          /\ parent(b)[DURATION_INDEX] <= 1000 /\ parent(b)[LOT_SIZE_INDEX] >= 10^6
          /\ \E t \in similar(b) :
                t[DURATION_INDEX] > 1000 /\ t[LOT_SIZE_INDEX] < 10^6
    /\ trade[USER_ID_INDEX] \in {user_id1, user_id2}
    /\ trade[DURATION_INDEX] <= 1000 /\ trade[LOT_SIZE_INDEX] < 10^6
    /\ \A b \in Batches : trade \notin trades_of(b)

\* C15: the similar trades of a batch have the parent's symbol, and a batch
\* linked in the chain or held in the result list of key s has a parent of
\* symbol s.
OneSymbolPerBatchAndKey ==
    /\ \A b \in Batches : \A t \in similar(b) :
          t[SYMBOL_INDEX] = parent(b)[SYMBOL_INDEX]
    /\ \A cls \in Categories, symbol \in Symbols :
          \A b \in Range(chain(heap, chain_head(cls, symbol)))
                      \cup Range(result_list(cls, symbol)) :
              parent(b)[SYMBOL_INDEX] = symbol

\* A trade of another account joined a batch of its own symbol although a
\* younger batch of the same class, for the other symbol, was live and empty
\* when it arrived.
YoungerBatchOfOtherSymbolPassedOver ==
    \E b, c \in Batches :
        /\ heap[b].cls = heap[c].cls /\ b < c
        /\ parent(b)[SYMBOL_INDEX] # parent(c)[SYMBOL_INDEX]
        /\ c \in Live /\ similar(c) = {}
        /\ \E t \in similar(b) :
              /\ t[TRADE_ID_INDEX] > parent(c)[TRADE_ID_INDEX]
              /\ t[ACCOUNT_ID_INDEX] # parent(c)[ACCOUNT_ID_INDEX]
              /\ t[SIDE_INDEX] # parent(c)[SIDE_INDEX]
              /\ ~past_window(c, t)

\* The report of a class: for each symbol the (parent, similar trades) pairs
\* of its result list, in order.
report(cls) ==
    [symbol \in Symbols |->
        [i \in DOMAIN result_list(cls, symbol) |->
            <<parent(result_list(cls, symbol)[i]),
              heap[result_list(cls, symbol)[i]].similar_trades>>]]

\* A report that holds nothing but the batch (parent, similar) on symbol 0.
only_batch(parent_trade, similar_trades) ==
    [symbol \in Symbols |->
        IF symbol = 0 THEN << <<parent_trade, similar_trades>> >> ELSE <<>>]

no_batch == [symbol \in Symbols |-> <<>>]

\* The stream was ScenarioT1, ScenarioT2(lot_size) and the sweep has run.
ScenarioRan(lot_size) ==
    /\ pc = "done"
    /\ trade = ScenarioT2(lot_size)
    /\ heap # <<>> /\ parent(1) = ScenarioT1

\* C16 as stated: with T2 of 6 lots all three reports hold (T1, [T2]); with
\* T2 of 7 lots the partial-copy report is empty and the copy and reversal
\* reports still hold (T1, [T2]).
Scenario3AllThreeReports ==
    /\ ScenarioRan(6 * 10^8) =>
          /\ report("Copy") = only_batch(ScenarioT1, <<ScenarioT2(6 * 10^8)>>)
          /\ report("Reversal") = only_batch(ScenarioT1, <<ScenarioT2(6 * 10^8)>>)
          /\ report("PartialCopy") = only_batch(ScenarioT1, <<ScenarioT2(6 * 10^8)>>)
    /\ ScenarioRan(7 * 10^8) =>
          /\ report("Copy") = only_batch(ScenarioT1, <<ScenarioT2(7 * 10^8)>>)
          /\ report("Reversal") = only_batch(ScenarioT1, <<ScenarioT2(7 * 10^8)>>)
          /\ report("PartialCopy") = no_batch

\* C16 (amended): with T2 of 6 lots the copy and partial-copy reports hold
\* (T1, [T2]) and the reversal report is empty; with T2 of 7 lots the copy
\* report holds (T1, [T2]) and the reversal and partial-copy reports are
\* empty.
Scenario3CopyAndPartialCopy ==
    /\ ScenarioRan(6 * 10^8) =>
          /\ report("Copy") = only_batch(ScenarioT1, <<ScenarioT2(6 * 10^8)>>)
          /\ report("Reversal") = no_batch
          /\ report("PartialCopy") = only_batch(ScenarioT1, <<ScenarioT2(6 * 10^8)>>)
    /\ ScenarioRan(7 * 10^8) =>
          /\ report("Copy") = only_batch(ScenarioT1, <<ScenarioT2(7 * 10^8)>>)
          /\ report("Reversal") = no_batch
          /\ report("PartialCopy") = no_batch

\* Scenario 3 has run with T2 of 6 lots.
Scenario3Ran == ScenarioRan(6 * 10^8)

\* Trade t is inside the open window of batch b and has the account and the
\* side of b's parent.
same_account_same_side(b, t) ==
    /\ ~past_window(b, t)
    /\ t[ACCOUNT_ID_INDEX] = parent(b)[ACCOUNT_ID_INDEX]
    /\ t[SIDE_INDEX] = parent(b)[SIDE_INDEX]

\* In this step batch b of class cls keeps its place in the chain of the
\* incoming trade's symbol, with its similar list as it was.
StaysOpen(cls, b) ==
    /\ b \in Range(chain(heap, chain_head(cls, trade[SYMBOL_INDEX])))'
    /\ heap'[b].similar_trades = heap[b].similar_trades

\* In this step batch b of class cls leaves the chain of the incoming trade's
\* symbol and a new batch, parented by the trade, is linked there in front of
\* b's successor.
ClosedAndReplaced(cls, b) ==
    LET linked_after == Range(chain(heap, chain_head(cls, trade[SYMBOL_INDEX])))'
    IN  /\ b \notin linked_after
        /\ \E n \in linked_after :
              /\ n > Len(heap)
              /\ heap'[n].parent_trade = trade'
              /\ heap'[n].next_batch = heap[b].next_batch

\* The traversal of this step ends at position j of the chain `live` of class
\* cls: the batch there is inside the window of the incoming trade and takes
\* the trade or leaves the chain.
StopsAt(cls, live, j) ==
    /\ ~past_window(live[j], trade')
    /\ \/ trade' \in Range(heap'[live[j]].similar_trades)
       \/ live[j] \notin Range(chain(heap, chain_head(cls, trade[SYMBOL_INDEX])))'

\* The traversal of this step ends ahead of position i.
StopsAhead(cls, live, i) == \E j \in 1..(i - 1) : StopsAt(cls, live, j)

\* The stream was two trades of one symbol, the second inside the window of
\* the first and of its account and side, and the sweep has run.
TwoTradesOfOneAccountAndSide ==
    /\ pc = "done" /\ trade[TRADE_ID_INDEX] = 2 /\ heap # <<>>
    /\ parent(1)[TRADE_ID_INDEX] = 1
    /\ parent(1)[SYMBOL_INDEX] = trade[SYMBOL_INDEX]
    /\ same_account_same_side(1, trade)

\* C17 as stated: a trade inside the window of a live batch, of its parent's
\* account and side, leaves the batch open in the Copy chain and closes and
\* replaces it in the Reversal and PartialCopy chains; after two such trades
\* alone all result lists are empty.
SameAccountSameSideClosesAnyBatch ==
    [][ /\ Classifies =>
            \A cls \in Categories :
                LET live == chain(heap, chain_head(cls, trade'[SYMBOL_INDEX]))
                IN  \A i \in DOMAIN live :
                        same_account_same_side(live[i], trade') =>
                            IF cls = "Copy" THEN StaysOpen(cls, live[i])
                            ELSE ClosedAndReplaced(cls, live[i])
        /\ TwoTradesOfOneAccountAndSide' => Emitted' = {}
      ]_vars

\* C17 (amended): as stated, except that the batch of a Reversal or
\* PartialCopy chain is closed and replaced only if the traversal does not
\* end at a batch ahead of it.
SameAccountSameSideClosesReachedBatch ==
    [][ /\ Classifies =>
            \A cls \in Categories :
                LET live == chain(heap, chain_head(cls, trade'[SYMBOL_INDEX]))
                IN  \A i \in DOMAIN live :
                        same_account_same_side(live[i], trade') =>
                            IF cls = "Copy" THEN StaysOpen(cls, live[i])
                            ELSE StopsAhead(cls, live, i) \/ ClosedAndReplaced(cls, live[i])
        /\ TwoTradesOfOneAccountAndSide' => Emitted' = {}
      ]_vars

\* The trade read last has the account and side of a parent whose Copy batch
\* is still linked behind the trade's own new batch, and whose Reversal batch
\* has given its place to a batch parented by the trade.
OpenInCopyReplacedInReversal ==
    /\ Classified
    /\ \E b, c \in Batches :
          /\ heap[b].cls = "Copy" /\ heap[c].cls = "Reversal"
          /\ parent(b) = parent(c) /\ parent(b) # trade
          /\ same_account_same_side(b, trade)
          /\ b \in Live /\ c \notin Live
          /\ \E n \in Live :
                /\ heap[n].cls = "Reversal" /\ parent(n) = trade
                /\ heap[n].next_batch = heap[c].next_batch
          /\ \E n \in Live :
                /\ heap[n].cls = "Copy" /\ parent(n) = trade
                /\ heap[n].next_batch = b

\* The position at which the traversal of this step ends in the chain `live`
\* of class cls, or Len(live) + 1 if it runs off the end.
stop_position(cls, live) ==
    LET stops == { j \in DOMAIN live : StopsAt(cls, live, j) }
    IN  IF stops = {} THEN Len(live) + 1
        ELSE CHOOSE j \in stops : \A k \in stops : j <= k

\* C18: every batch that the traversal meets past the window of the incoming
\* trade, whatever its parent's account, leaves the chain with its similar
\* list as it was and is appended to the result list iff that list is not
\* empty; the batches met inside the window keep their order at the front of
\* the chain; a traversal that runs off the end puts a new empty batch,
\* parented by the trade, in front of them.
ExpiredBatchesEvicted ==
    [][ Classifies =>
          \A cls \in Categories :
              LET live == chain(heap, chain_head(cls, trade'[SYMBOL_INDEX]))
                  after == chain(heap, chain_head(cls, trade[SYMBOL_INDEX]))'
                  queue == result_list(cls, trade'[SYMBOL_INDEX])
                  queue_after == result_list(cls, trade[SYMBOL_INDEX])'
                  k == stop_position(cls, live)
                  inside(b) == ~past_window(b, trade')
                  kept == SelectSeq(SubSeq(live, 1, k - 1), inside)
              IN  /\ \A i \in 1..(k - 1) : past_window(live[i], trade') =>
                        /\ live[i] \notin Range(after)
                        /\ heap'[live[i]].similar_trades = heap[live[i]].similar_trades
                        /\ live[i] \notin Range(queue)
                        /\ live[i] \in Range(queue_after)
                               <=> heap[live[i]].similar_trades # <<>>
                  /\ IF k > Len(live)
                     THEN /\ Len(after) = Len(kept) + 1
                          /\ SubSeq(after, 2, Len(after)) = kept
                          /\ after[1] > Len(heap)
                          /\ heap'[after[1]].parent_trade = trade'
                          /\ heap'[after[1]].similar_trades = <<>>
                     ELSE /\ Len(after) >= Len(kept)
                          /\ SubSeq(after, 1, Len(kept)) = kept
      ]_vars

\* The trade read last met a filled batch of its own account past the
\* window: the batch went to the result list and the trade parents the only
\* batch of the chain.
ExpiredBatchOfSameAccountEvicted ==
    /\ Classified
    /\ \E b \in Emitted :
          /\ b \notin Live
          /\ past_window(b, trade)
          /\ parent(b)[ACCOUNT_ID_INDEX] = trade[ACCOUNT_ID_INDEX]
          /\ parent(b)[SYMBOL_INDEX] = trade[SYMBOL_INDEX]
          /\ LET live == chain(heap, chain_head(heap[b].cls, trade[SYMBOL_INDEX]))
             IN  Len(live) = 1 /\ parent(live[1]) = trade

\* What submit_trade of batch b returns for trade t.
outcome(b, t) ==
    submit_trade(heap[b], t, t[OPEN_DATE_INDEX], t[CLOSE_DATE_INDEX], t[ACCOUNT_ID_INDEX],
                 t[IF heap[b].cls = "PartialCopy" THEN LOT_SIZE_INDEX ELSE SIDE_INDEX]).ret

\* The positions of the chain `live` at which the loop of categorize_trade
\* returns for trade t.
returns_at(live, t) == { j \in DOMAIN live : outcome(live[j], t) \notin {0, 2, 3} }

\* C19: when the first batch cur at which the traversal returns gives
\* SAME_ACCOUNT, the chain afterwards is the chain before with the expired
\* batches ahead of cur removed and cur replaced, in place, by a new batch
\* with the incoming trade as parent, an empty similar list and cur's
\* successor; cur goes last to the result list iff its similar list is not
\* empty; every batch behind cur is left exactly as it was.
SameAccountReplacesInPlace ==
    [][ Classifies =>
          \A cls \in Categories :
              LET live == chain(heap, chain_head(cls, trade'[SYMBOL_INDEX]))
                  after == chain(heap, chain_head(cls, trade[SYMBOL_INDEX]))'
                  queue == result_list(cls, trade'[SYMBOL_INDEX])
                  queue_after == result_list(cls, trade[SYMBOL_INDEX])'
                  stops == returns_at(live, trade')
              IN  \A k \in stops :
                    (outcome(live[k], trade') = 1 /\ \A j \in stops : k <= j) =>
                      LET cur == live[k]
                          not_expired(b) == outcome(b, trade') # 0
                          kept == SelectSeq(SubSeq(live, 1, k - 1), not_expired)
                          n == after[Len(kept) + 1]
                      IN  /\ Len(after) = Len(kept) + 1 + (Len(live) - k)
                          /\ SubSeq(after, 1, Len(kept)) = kept
                          /\ SubSeq(after, Len(kept) + 2, Len(after))
                                 = SubSeq(live, k + 1, Len(live))
                          /\ n > Len(heap)
                          /\ heap'[n].parent_trade = trade'
                          /\ heap'[n].similar_trades = <<>>
                          /\ heap'[n].next_batch = heap[cur].next_batch
                          /\ heap'[cur].similar_trades = heap[cur].similar_trades
                          /\ IF heap[cur].similar_trades # <<>>
                             THEN /\ cur \notin Range(queue)
                                  /\ queue_after # <<>>
                                  /\ queue_after[Len(queue_after)] = cur
                             ELSE cur \notin Range(queue_after)
                          /\ \A j \in (k + 1)..Len(live) : heap'[live[j]] = heap[live[j]]
      ]_vars

\* The trade read last replaced a batch of its own account: it parents an
\* empty batch of the chain, and a batch past its window is still linked
\* behind that batch.
ReplacedBehindHeadStaleBatchKept ==
    /\ Classified
    /\ \E cls \in Categories :
          LET live == chain(heap, chain_head(cls, trade[SYMBOL_INDEX]))
          IN  \E i \in DOMAIN live :
                /\ parent(live[i]) = trade
                /\ heap[live[i]].similar_trades = <<>>
                /\ \E j \in DOMAIN live : j > i /\ past_window(live[j], trade)

\* The batches of class cls that trade t parents or that hold t as a similar
\* trade.
consumers(cls, t) ==
    { b \in Batches : heap[b].cls = cls /\ (parent(b) = t \/ t \in similar(b)) }

\* C20: in each category, every trade that passed the filter is either the
\* parent of exactly one batch or a similar trade, once, of exactly one batch,
\* never both and never neither.
ConsumedExactlyOnce ==
    \A cls \in Categories :
        /\ \A b \in Batches : heap[b].cls = cls =>
              /\ consumers(cls, parent(b)) = {b}
              /\ \A i, j \in DOMAIN heap[b].similar_trades :
                    heap[b].similar_trades[i] = heap[b].similar_trades[j] => i = j
              /\ \A t \in similar(b) : consumers(cls, t) = {b}
        /\ (trade[TRADE_ID_INDEX] # 0 /\ passes_filter(trade)) =>
              consumers(cls, trade) # {}

\* The parent accounts of the batches of chain `live` are pairwise distinct.
distinct_accounts(live) ==
    \A i, j \in DOMAIN live :
        parent(live[i])[ACCOUNT_ID_INDEX] = parent(live[j])[ACCOUNT_ID_INDEX] => i = j

\* C21: in every Reversal chain and every PartialCopy chain the live batches
\* have pairwise distinct parent accounts.
OneLiveBatchPerAccount ==
    \A cls \in {"Reversal", "PartialCopy"}, symbol \in Symbols :
        distinct_accounts(chain(heap, chain_head(cls, symbol)))

\* A Reversal chain holds batches of two accounts, one of them the
\* replacement of a batch closed by its own account, while the Copy chain of
\* the same symbol holds two batches of one account.
TwoAccountsInReversalOneTwiceInCopy ==
    \E symbol \in Symbols :
        LET live == chain(heap, chain_head("Reversal", symbol))
        IN  /\ Len(live) >= 2
            /\ \E b \in Batches :
                  /\ heap[b].cls = "Reversal"
                  /\ b \notin Range(live)
                  /\ \E i \in DOMAIN live :
                        /\ parent(live[i])[ACCOUNT_ID_INDEX] = parent(b)[ACCOUNT_ID_INDEX]
                        /\ live[i] > b
            /\ ~distinct_accounts(chain(heap, chain_head("Copy", symbol)))

\* Streams on one symbol and one side over two accounts: trades of 0.1 and
\* 0.13 lot that last 1 s and trades of lot size 0 that stay open for a
\* window plus 1 s, 1 ms apart, and trades of 0.1 lot a whole window apart.
ZeroLotRecords ==
    { NextRecord(1, sized[1], sized[2], 0, 0, account_id) :
        sized \in { <<1000, 10 * MINIMUM_LOT_SIZE>>, <<1000, 13 * MINIMUM_LOT_SIZE>>,
                    <<MATCHING_TIME_WINDOW + 1000, 0>> },
        account_id \in {10, 11} }
    \cup { NextRecord(MATCHING_TIME_WINDOW, 1000, 10 * MINIMUM_LOT_SIZE, 0, 0, account_id) :
             account_id \in {10, 11} }

MoreZeroLotRecords == trade[TRADE_ID_INDEX] < MaxZeroLotTrades

NextZeroLot ==
    \/ MoreZeroLotRecords /\ \E t \in ZeroLotRecords : ReadTrade(t)
    \/ EndOfStream

SpecZeroLot == Init /\ [][NextZeroLot]_vars

\* C22: a batch that a step of the scan leaves in a result list is not
\* reachable from any chain head after that step nor after any later one, and
\* every later step leaves its parent and its similar list as they were.
EmittedBatchesLeftAlone ==
    [][ LET emitted == IF pc' = "done" THEN Emitted ELSE Emitted'
        IN  \A b \in emitted :
              /\ b \notin Live'
              /\ b \in Emitted =>
                    /\ heap'[b].parent_trade = heap[b].parent_trade
                    /\ heap'[b].similar_trades = heap[b].similar_trades
      ]_vars

====
